---------------------------- MODULE Spec2Model ----------------------------
(***************************************************************************)
(* Coherent line drawing as an OpenFaaS function                           *)
(* (esimov/openfaas-coherent-line-drawing).                                *)
(*                                                                         *)
(* The model follows one request through Handle (handler.go), NewCLD and   *)
(* GenerateCld (cld.go) and the post processing (vizualize.go).  The main  *)
(* goroutine and the per-pixel goroutines of gradientDoG, flowDoG,         *)
(* binaryThreshold and combineImage are interleaved step by step; the      *)
(* WaitGroup c.wg and the mutex c.etf.mu are part of the state.            *)
(*                                                                         *)
(* Numbers.  A Go float is an integer count of 1/Scale (fixed point);      *)
(* NaN is a value of its own.  A uint8 sample is an integer 0..255.        *)
(***************************************************************************)
EXTENDS Integers, Sequences, FiniteSets, TLC

(***************************************************************************)
(* Fixed point arithmetic standing for float64/float32.                    *)
(***************************************************************************)
Scale == 10 ^ 4

\* The value of 0/0; every comparison with it is false.
NaN == 0 - 2 ^ 30

\* One in fixed point.
One == Scale

Abs(x) == IF x < 0 THEN 0 - x ELSE x

Sign(x) == IF x < 0 THEN 0 - 1 ELSE 1

\* a / b rounded to the nearest integer, for any signs, b # 0.
DivRound(a, b) ==
    LET n == Abs(a)
        d == Abs(b)
        q == (n \div d) + (IF 2 * (n % d) >= d THEN 1 ELSE 0)
    IN  IF (a < 0) = (b < 0) THEN q ELSE 0 - q

\* Float product and quotient; NaN propagates, x/0 is NaN only for 0/0
\* (the code never divides a non-zero value by zero without a NaN first).
FMul(a, b) ==
    IF a = NaN \/ b = NaN THEN NaN
    ELSE LET m == Abs(a)
             n == Abs(b)
             p == (m \div Scale) * n + (m % Scale) * (n \div Scale) +
                  DivRound((m % Scale) * (n % Scale), Scale)
         IN  IF (a < 0) = (b < 0) THEN p ELSE 0 - p

FDiv(a, b) ==
    IF a = NaN \/ b = NaN \/ b = 0 THEN NaN ELSE DivRound(a * Scale, b)

FAdd(a, b) == IF a = NaN \/ b = NaN THEN NaN ELSE a + b

\* Go's "a < b" on floats: false as soon as one side is NaN.
FLess(a, b) == a # NaN /\ b # NaN /\ a < b

FGreater(a, b) == a # NaN /\ b # NaN /\ a > b

\* math.Trunc, as a whole number (not scaled): towards zero.
TruncInt(x) == IF x >= 0 THEN x \div Scale ELSE 0 - ((0 - x) \div Scale)

\* round of cld.go, as a whole number: nearest, ties away from zero.
round(x) ==
    LET t == TruncInt(x)
    IN  IF 2 * Abs(x - t * Scale) >= Scale THEN t + Sign(x) ELSE t

absInt(x) == IF x < 0 THEN 0 - x ELSE x

\* The integer square root, by bisection.
RECURSIVE SqrtSearch(_, _, _)
SqrtSearch(v, lo, hi) ==
    IF lo >= hi THEN lo
    ELSE LET mid == (lo + hi + 1) \div 2
         IN  IF mid * mid <= v THEN SqrtSearch(v, mid, hi)
             ELSE SqrtSearch(v, lo, mid - 1)

ISqrt(v) == SqrtSearch(v, 0, 40000)

\* Scale * e^(-1), and Scale * e^(-k) for a whole k >= 0.
EInv == DivRound(36788 * Scale, 100000)

RECURSIVE ExpNegInt(_)
ExpNegInt(k) ==
    IF k = 0 THEN Scale
    ELSE IF k > 12 THEN 0
    ELSE DivRound(ExpNegInt(k - 1) * EInv, Scale)

\* The Taylor series of e^(-f), 0 <= f < Scale, term by term.
RECURSIVE ExpSeries(_, _, _)
ExpSeries(f, term, k) ==
    IF term = 0 \/ k > 12 THEN 0
    ELSE LET next == DivRound(term * f, Scale * k)
         IN  (IF k % 2 = 1 THEN 0 - next ELSE next) + ExpSeries(f, next, k + 1)

\* math.Exp(-n/d) for n >= 0, d > 0.
ExpNeg(n, d) ==
    LET q == n \div d
        f == IF d < 20 * Scale THEN DivRound((n % d) * Scale, d)
             ELSE DivRound((n % d) * 100, d \div 100)
        frac == Scale + ExpSeries(f, Scale, 1)
    IN  DivRound(ExpNegInt(q) * frac, Scale)

\* math.Tanh(x) for x <= 0.
Tanh(x) ==
    IF x = NaN THEN NaN
    ELSE LET e == ExpNeg(2 * Abs(x), Scale)
         IN  0 - DivRound((Scale - e) * Scale, Scale + e)

(***************************************************************************)
(* The Gaussian kernel builder (cld.go).                                   *)
(***************************************************************************)
\* Iterations of makeGaussianVector's search loop the model follows before
\* it reports the loop as still running.
MaxLoop == 40

\* threshold = 0.001 of makeGaussianVector.
threshold == DivRound(Scale, 1000)

\* math.Sqrt(math.Pi*2.0*sigma*sigma), sigma a float.
GaussNorm(sigma) == 10 * ISqrt(FMul(62832, FMul(sigma, sigma)) * 100)

\* gauss(x, mean, sigma): x and mean are whole numbers (the code passes
\* float64(i) and 0.0), sigma a float.  With sigma = 0 both the exponent
\* and the quotient are 0/0 or x/0/0: NaN.
gauss(x, mean, sigma) ==
    IF sigma = NaN \/ sigma = 0 THEN NaN
    ELSE FDiv(ExpNeg((x - mean) * (x - mean) * Scale, 2 * FMul(sigma, sigma)),
              GaussNorm(sigma))

\* The search loop "for { i++; if gauss(i) < threshold { break } }" started
\* with i: the value of i at the break, or 0 when the loop is still running
\* after MaxLoop iterations.
RECURSIVE GaussSearch(_, _)
GaussSearch(sigma, i) ==
    IF i >= MaxLoop THEN 0
    ELSE IF FLess(gauss(i + 1, 0, sigma), threshold) THEN i + 1
    ELSE GaussSearch(sigma, i + 1)

\* makeGaussianVector(sigma): the vector gau[0..i] as a sequence (index j of
\* the code is element j+1); the empty sequence when the search loop is
\* still running after MaxLoop iterations.
makeGaussianVectorMutShort(sigma) ==
    LET n == GaussSearch(sigma, 0)
    IN  IF n = 0 THEN <<>> ELSE [j \in 1..n |-> gauss(j - 1, 0, sigma)]

makeGaussianVector(sigma) ==
    LET n == GaussSearch(sigma, 0)
    IN  IF n = 0 THEN <<>> ELSE [j \in 1..(n + 1) |-> gauss(j - 1, 0, sigma)]

\* Whether a call of makeGaussianVector that gave gau has returned.
Returned(gau) == gau # <<>>

(***************************************************************************)
(* Rasters.  A gocv.Mat of rows x cols is a function on Pix(rows, cols);   *)
(* a pixel is <<y, x>>.  The tangent field holds a Vecf <<v0, v1>> per     *)
(* pixel.                                                                  *)
(***************************************************************************)
Pix(h, w) == (0..(h - 1)) \X (0..(w - 1))

\* The n-th pixel of the loops "for y { for x {" (n from 0).
PixelAt(n, w) == <<n \div w, n % w>>

\* gocv.NewMatWithSize: cv::Mat(rows, cols, type, 0.0).
NewMatWithSize(h, w) == [p \in Pix(h, w) |-> 0]

SeqSum(f, S) ==
    LET RECURSIVE Sum(_)
        Sum(T) == IF T = {} THEN 0
                  ELSE LET e == CHOOSE e \in T : TRUE
                       IN  f[e] + Sum(T \ {e})
    IN  Sum(S)

RasterMin(m) == CHOOSE v \in {m[p] : p \in DOMAIN m} :
                    \A q \in DOMAIN m : v <= m[q]

RasterMax(m) == CHOOSE v \in {m[p] : p \in DOMAIN m} :
                    \A q \in DOMAIN m : v >= m[q]

\* c.image.ConvertTo(&srcImg32FC1, MatTypeCV32F, 1.0/255.0)
ConvertTo32F(img) == [p \in DOMAIN img |-> DivRound(img[p] * Scale, 255)]

(***************************************************************************)
(* gradientDoG, the body of one pixel goroutine (cld.go 149-188).          *)
(***************************************************************************)
\* One read of the code: of the raster src or flowField at (row, col), or
\* of a kernel (gvc, gvs, gausVec) at index col.  walk is 1 on the walk
\* along the ETF, -1 on the walk along the inverse ETF and 0 outside the
\* walks; step is the loop counter.
Read(mat, walk, step, row, col) ==
    [mat |-> mat, walk |-> walk, step |-> step, row |-> row, col |-> col]

\* The weight of the centre kernel at gauIdx: 0 past its end.
gauCWeight(gvc, gauIdx) == IF gauIdx >= Len(gvc) THEN 0 ELSE gvc[gauIdx + 1]

\* The steps -kernel..kernel whose sample lies inside the raster.
GradientSteps(h, w, y, x, gradient, kernel) ==
    {step \in (0 - kernel)..kernel :
        LET row == y * Scale + gradient.y * step
            col == x * Scale + gradient.x * step
        IN  ~(row > (h - 1) * Scale \/ row < 0 \/
              col > (w - 1) * Scale \/ col < 0)}

\* The raster index int(round(row)), int(round(col)) of the sample of step.
GradientIndex(y, x, gradient, step) ==
    <<round(y * Scale + gradient.y * step),
      round(x * Scale + gradient.x * step)>>

GradientSample(src, y, x, gradient, step) ==
    src[GradientIndex(y, x, gradient, step)]

\* The reads of the goroutine: the tangent at the pixel, then for every
\* step that is not skipped the sample, gvs[gauIdx], and gvc[gauIdx] when
\* gauIdx is not past its end.
GradientReads(gvc, y, x, gradient, steps) ==
    {Read("flowField", 0, 0, y, x)} \cup
    UNION {{Read("src", 0, st, GradientIndex(y, x, gradient, st)[1],
                 GradientIndex(y, x, gradient, st)[2]),
            Read("gvs", 0, st, 0, absInt(st))} \cup
           (IF absInt(st) >= Len(gvc) THEN {}
            ELSE {Read("gvc", 0, st, 0, absInt(st))}) : st \in steps}

\* The four accumulators after the loop over the steps, with the reads.
GradientAcc(src, field, gvc, gvs, h, w, y, x) ==
    LET tmp == field[<<y, x>>]
        gradient == [x |-> 0 - tmp[1], y |-> tmp[2]]
        kernel == Len(gvs) - 1
        steps == GradientSteps(h, w, y, x, gradient, kernel)
        val == [st \in steps |-> GradientSample(src, y, x, gradient, st)]
    IN  [gauCAcc |-> SeqSum([st \in steps |->
                        FMul(val[st], gauCWeight(gvc, absInt(st)))], steps),
         gauSAcc |-> SeqSum([st \in steps |->
                        FMul(val[st], gvs[absInt(st) + 1])], steps),
         gauCWeightAcc |-> SeqSum([st \in steps |->
                        gauCWeight(gvc, absInt(st))], steps),
         gauSWeightAcc |-> SeqSum([st \in steps |-> gvs[absInt(st) + 1]], steps),
         reads |-> GradientReads(gvc, y, x, gradient, steps)]

\* res = vc - rho*vs, the value stored at dst(y, x).
GradientValue(src, field, gvc, gvs, rho, h, w, y, x) ==
    LET a == GradientAcc(src, field, gvc, gvs, h, w, y, x)
        vc == FDiv(a.gauCAcc, a.gauCWeightAcc)
        vs == FDiv(a.gauSAcc, a.gauSWeightAcc)
    IN  FAdd(vc, IF vs = NaN THEN NaN ELSE 0 - FMul(rho, vs))

(***************************************************************************)
(* flowDoG, the body of one pixel goroutine (cld.go 213-293).              *)
(***************************************************************************)
InRaster(h, w, row, col) == row >= 0 /\ row <= h - 1 /\ col >= 0 /\ col <= w - 1

\* The test after the move: the rounded position is outside the raster.
LandsOutsideMutNever(h, w, pos) == FALSE

LandsOutside(h, w, pos) ==
    round(pos.x) < 0 \/ round(pos.x) > w - 1 \/
    round(pos.y) < 0 \/ round(pos.y) > h - 1

\* One walk along the field from pos with the sign dir (1: along the ETF,
\* -1: along the inverse ETF), from step on.  acc and wacc are gauAcc and
\* gauWeightAcc; reads are the reads made so far; oob records a read outside
\* the raster.
RECURSIVE FlowWalk(_, _, _, _, _, _, _, _, _, _, _)
FlowWalk(src, field, gausVec, h, w, dir, pos, step, acc, wacc, reads) ==
    IF step >= Len(gausVec) - 1
    THEN [acc |-> acc, wacc |-> wacc, oob |-> FALSE, reads |-> reads]
    ELSE
      LET iy == TruncInt(pos.y)
          ix == TruncInt(pos.x)
          reads1 == reads \cup {Read("flowField", dir, step, iy, ix)}
      IN
      IF ~InRaster(h, w, iy, ix)
      THEN [acc |-> acc, wacc |-> wacc, oob |-> TRUE, reads |-> reads1]
      ELSE
        LET tmp == field[<<iy, ix>>]
            direction == [x |-> dir * tmp[2], y |-> dir * tmp[1]]
        IN
        IF direction.x = 0 /\ direction.y = 0
        THEN [acc |-> acc, wacc |-> wacc, oob |-> FALSE, reads |-> reads1]
        ELSE IF pos.x > (w - 1) * Scale \/ pos.x < 0 \/
                pos.y > (h - 1) * Scale \/ pos.y < 0
        THEN [acc |-> acc, wacc |-> wacc, oob |-> FALSE, reads |-> reads1]
        ELSE
          LET value == src[<<iy, ix>>]
              weight == gausVec[step + 1]
              acc2 == FAdd(acc, FMul(value, weight))
              wacc2 == wacc + weight
              npos == [x |-> pos.x + direction.x, y |-> pos.y + direction.y]
              reads2 == reads1 \cup {Read("src", dir, step, iy, ix),
                                     Read("gausVec", dir, step, 0, step)}
          IN
          IF LandsOutside(h, w, npos)
          THEN [acc |-> acc2, wacc |-> wacc2, oob |-> FALSE,
                reads |-> reads2]
          ELSE FlowWalk(src, field, gausVec, h, w, dir, npos, step + 1,
                        acc2, wacc2, reads2)

\* The reads of the centre tap (cld.go 216-217).
CentreReads(y, x) == {Read("src", 0, 0, y, x), Read("gausVec", 0, 0, 0, 0)}

FlowAccMutOneWalk(src, field, gausVec, h, w, y, x) ==
    LET start == [x |-> x * Scale, y |-> y * Scale]
        acc0 == IF src[<<y, x>>] = NaN THEN NaN
                ELSE 0 - FMul(gausVec[1], src[<<y, x>>])
        wacc0 == 0 - gausVec[1]
        fwd == FlowWalk(src, field, gausVec, h, w, 1, start, 0, acc0, wacc0,
                        CentreReads(y, x))
    IN  [gauAcc |-> fwd.acc, gauWeightAcc |-> fwd.wacc, oob |-> fwd.oob,
         reads |-> fwd.reads]

\* gauAcc and gauWeightAcc of pixel (y, x) after the centre tap and both
\* walks, with the reads made on the way.
FlowAcc(src, field, gausVec, h, w, y, x) ==
    LET start == [x |-> x * Scale, y |-> y * Scale]
        acc0 == IF src[<<y, x>>] = NaN THEN NaN
                ELSE 0 - FMul(gausVec[1], src[<<y, x>>])
        wacc0 == 0 - gausVec[1]
        fwd == FlowWalk(src, field, gausVec, h, w, 1, start, 0, acc0, wacc0,
                        CentreReads(y, x))
        bwd == FlowWalk(src, field, gausVec, h, w, 0 - 1, start, 0,
                        fwd.acc, fwd.wacc, fwd.reads)
    IN  [gauAcc |-> bwd.acc, gauWeightAcc |-> bwd.wacc,
         oob |-> fwd.oob \/ bwd.oob, reads |-> bwd.reads]

newValMutNoClamp(gauAcc, gauWeightAcc) ==
    FAdd(One, Tanh(FDiv(gauAcc, gauWeightAcc)))

\* newVal of flowDoG.
newVal(gauAcc, gauWeightAcc) ==
    LET q == FDiv(gauAcc, gauWeightAcc)
    IN  IF FGreater(q, 0) THEN One ELSE FAdd(One, Tanh(q))

(***************************************************************************)
(* gocv.Normalize(src, dst, alpha, beta, NormMinMax) in its two phases:    *)
(* cv::minMaxIdx, then convertTo with the scale and shift.                 *)
(***************************************************************************)
MinMaxIdx(m) == [smin |-> RasterMin(m), smax |-> RasterMax(m)]

\* v*scale + shift with scale = (beta-alpha)/(smax-smin), or 0 when the
\* range is empty, and shift = alpha - smin*scale.
NormalizeValue(v, mm, alpha, beta) ==
    IF mm.smax - mm.smin <= 0 THEN alpha
    ELSE alpha + DivRound((v - mm.smin) * (beta - alpha), mm.smax - mm.smin)

NormalizeConvertTo(m, mm, alpha, beta) ==
    [p \in DOMAIN m |-> NormalizeValue(m[p], mm, alpha, beta)]

Normalize(m, alpha, beta) == NormalizeConvertTo(m, MinMaxIdx(m), alpha, beta)

(***************************************************************************)
(* binaryThreshold, the body of one pixel goroutine (cld.go 315-322).      *)
(***************************************************************************)
ThresholdMutLeq(h, tau) == IF h # NaN /\ tau # NaN /\ h <= tau THEN 0 ELSE 255

ThresholdValue(h, tau) == IF FLess(h, tau) THEN 0 ELSE 255

(***************************************************************************)
(* gocv.GaussianBlur(src, &dst, Point{k, k}, 0, 0, BorderConstant) on an   *)
(* 8-bit raster: OpenCV's fixed kernels for sigma = 0, a zero border.      *)
(***************************************************************************)
\* Whether OpenCV accepts the kernel size (odd and positive).
BlurSizeOk(k) == k > 0 /\ k % 2 = 1

\* The integer kernel of size k and its sum (OpenCV's small_gaussian_tab).
BlurKernel(k) ==
    CASE k = 1 -> <<1>>
      [] k = 3 -> <<1, 2, 1>>
      [] k = 5 -> <<1, 4, 6, 4, 1>>
      [] OTHER -> <<1>>

BlurKernelSum(k) == CASE k = 3 -> 4 [] k = 5 -> 16 [] OTHER -> 1

GaussianBlur(m, h, w, k) ==
    LET ker == BlurKernel(k)
        r == (Len(ker) - 1) \div 2
        offs == ((0 - r)..r) \X ((0 - r)..r)
        at(y, x) == IF InRaster(h, w, y, x) THEN m[<<y, x>>] ELSE 0
        tot(p) == SeqSum([o \in offs |->
                     ker[o[1] + r + 1] * ker[o[2] + r + 1] *
                     at(p[1] + o[1], p[2] + o[2])], offs)
    IN  [p \in DOMAIN m |->
            DivRound(tot(p), BlurKernelSum(k) * BlurKernelSum(k))]

\* PostProcessing.AntiAlias(src, dst) on the 8-bit result.
AntiAlias(m, h, w, blurSize) == GaussianBlur(Normalize(m, 0, 255), h, w, blurSize)

(***************************************************************************)
(* strconv, on strings given as sequences of one-character strings.        *)
(***************************************************************************)
Digits == {"0", "1", "2", "3", "4", "5", "6", "7", "8", "9"}

DigitVal(c) ==
    CASE c = "0" -> 0 [] c = "1" -> 1 [] c = "2" -> 2 [] c = "3" -> 3
      [] c = "4" -> 4 [] c = "5" -> 5 [] c = "6" -> 6 [] c = "7" -> 7
      [] c = "8" -> 8 [] c = "9" -> 9

AllDigits(s) == \A n \in 1..Len(s) : s[n] \in Digits

RECURSIVE NatVal(_)
NatVal(s) ==
    IF s = <<>> THEN 0
    ELSE NatVal(SubSeq(s, 1, Len(s) - 1)) * 10 + DigitVal(s[Len(s)])

HasSign(s) == s # <<>> /\ s[1] \in {"+", "-"}

Unsigned(s) == IF HasSign(s) THEN Tail(s) ELSE s

Negative(s) == s # <<>> /\ s[1] = "-"

\* strconv.ParseInt(s, 10, 32): [val, err]; val is 0 on a syntax error.
\* (Omitted: the clamp of a value outside 32 bits.)
ParseInt(s) ==
    LET u == Unsigned(s)
    IN  IF u = <<>> \/ ~AllDigits(u) THEN [val |-> 0, err |-> TRUE]
        ELSE [val |-> IF Negative(s) THEN 0 - NatVal(u) ELSE NatVal(u),
              err |-> FALSE]

\* strconv.ParseFloat(s, bits) for the decimal forms [sign] digits [.digits]
\* and NaN: [val, err]; val is 0 on a syntax error.  (Omitted: exponents,
\* hexadecimal forms, underscores, infinities.)
ParseFloat(s) ==
    LET u == Unsigned(s)
        dots == {n \in 1..Len(u) : u[n] = "."}
        dot == IF dots = {} THEN Len(u) + 1 ELSE CHOOSE n \in dots : TRUE
        ip == SubSeq(u, 1, dot - 1)
        fp == SubSeq(u, dot + 1, Len(u))
        mag == NatVal(ip) * Scale + DivRound(NatVal(fp) * Scale, 10 ^ Len(fp))
    IN  IF u = <<"N", "a", "N">> THEN [val |-> NaN, err |-> FALSE]
        ELSE IF Cardinality(dots) > 1 \/ ~AllDigits(ip) \/ ~AllDigits(fp)
                \/ (ip = <<>> /\ fp = <<>>)
        THEN [val |-> 0, err |-> TRUE]
        ELSE [val |-> IF Negative(s) THEN 0 - mag ELSE mag, err |-> FALSE]

\* strconv.ParseBool(s): [val, err].
ParseBool(s) ==
    IF s \in {<<"1">>, <<"t">>, <<"T">>, <<"t", "r", "u", "e">>,
              <<"T", "R", "U", "E">>, <<"T", "r", "u", "e">>}
    THEN [val |-> TRUE, err |-> FALSE]
    ELSE IF s \in {<<"0">>, <<"f">>, <<"F">>, <<"f", "a", "l", "s", "e">>,
                   <<"F", "A", "L", "S", "E">>, <<"F", "a", "l", "s", "e">>}
    THEN [val |-> FALSE, err |-> FALSE]
    ELSE [val |-> FALSE, err |-> TRUE]

(***************************************************************************)
(* The request: environment, body and query of one invocation.             *)
(***************************************************************************)
\* The query flags the README documents, and "ai", the one Handle reads.
Keys == {"sr", "sm", "sc", "rho", "tau", "k", "ei", "di", "bl", "ai", "aa"}

\* url.Values.Get(key): the value, "" when the key is absent.
Get(params, key) == IF key \in DOMAIN params THEN params[key] ELSE <<>>

\* The parameters Handle leaves at their defaults when the query is empty.
NoQuery == [key \in Keys |-> <<>>]

\* Largest raster (rows * cols) of a request.
MaxPixels == 2

\* Most query parameters set at once in the requests that vary them freely.
MaxParams == 1

\* Largest iteration count a request asks for.
MaxIter == 2

Str(n) == <<CASE n = 0 -> "0" [] n = 1 -> "1" [] n = 2 -> "2" [] n = 3 -> "3"
              [] n = 4 -> "4" [] n = 5 -> "5" [] n = 6 -> "6" [] n = 7 -> "7"
              [] n = 8 -> "8" [] n = 9 -> "9">>

\* Decimal strings of the iteration counts -1..MaxIter.
IterStrings == {<<"-", "1">>} \cup {Str(n) : n \in 0..MaxIter}

\* The values a request may give to a parameter.
ParamValues(key) ==
    CASE key = "sc" -> {<<"0">>, <<"-", "1">>, <<"x">>, <<"0", ".", "5">>}
      [] key \in {"sr", "sm"} -> {<<"0">>, <<"-", "1">>}
      [] key = "rho" -> {<<"0", ".", "5">>}
      [] key = "tau" -> {<<"0">>, <<"0", ".", "5">>, <<"1", ".", "5">>}
      [] key = "k" -> {<<"2">>}
      [] key \in {"ei", "di"} -> IterStrings
      [] key = "bl" -> {<<"1">>, <<"2">>}
      [] key = "ai" -> {<<"1">>, <<"t", "r", "u", "e">>, <<"y">>}
      [] key = "aa" -> {<<"1">>}

AllValues == UNION {ParamValues(key) : key \in Keys}

\* The queries that set at most "most" of the parameters "keys".
Queries(keys, most) ==
    UNION {{[key \in Keys |-> IF key \in K THEN f[key] ELSE <<>>] :
              f \in {g \in [K -> AllValues] :
                        \A key \in K : g[key] \in ParamValues(key)}} :
           K \in {L \in SUBSET keys : Cardinality(L) <= most}}

\* The decoded pictures: rows x cols grey samples, black or white.
Pictures ==
    UNION {{[h |-> d[1], w |-> d[2], gray |-> g] :
              g \in [Pix(d[1], d[2]) -> {0, 255}]} :
           d \in {e \in (1..MaxPixels) \X (1..MaxPixels) :
                     e[1] * e[2] <= MaxPixels}}

\* The tangent directions of the uniform fields: none, along x, and a
\* slanted unit vector.
Directions == {<<0, 0>>, <<0, Scale>>,
               <<DivRound(6 * Scale, 10), DivRound(8 * Scale, 10)>>}

(***************************************************************************)
(* State.                                                                  *)
(***************************************************************************)
VARIABLES
    req,          \* the invocation: environment, body, query, picture, field
    calc,         \* one call of a function on its own: arguments and results
    pc,           \* where the main goroutine stands
    opts,         \* the options Handle builds (NoOpts before)
    response,     \* what Handle returns
    rows, cols,   \* size of c.image
    image,        \* c.image, 8 bit
    flowField,    \* c.etf.flowField
    src32,        \* srcImg32FC1 of generate
    dog,          \* c.dog
    fDog,         \* c.fDog
    result,       \* c.result, 8 bit
    gvc, gvs,     \* the kernels of gradientDoG
    gausVec,      \* the kernel of flowDoG
    gauAcc,       \* flowDoG's accumulators, shared by its goroutines
    gauWeightAcc,
    wg,           \* counter of c.wg
    mu,           \* c.etf.mu: "free", "held" or "exiting"
    stage,        \* the stage whose goroutines run
    task,         \* per pixel: the goroutine of the current stage
    next,         \* goroutines the spawning loop has started
    i,            \* i of GenerateCld's loop: recombinations started
    refined,      \* RefineEtf calls made by NewCLD
    mm,           \* min and max read by Normalize
    blurTmp,      \* the raster GaussianBlur has read
    trace,        \* stages completed, in order (history)
    binary        \* c.result as the last binaryThreshold left it (history)

vars == <<req, calc, pc, opts, response, rows, cols, image, flowField, src32, dog,
          fDog, result, gvc, gvs, gausVec, gauAcc, gauWeightAcc, wg, mu,
          stage, task, next, i, refined, mm, blurTmp, trace, binary>>

reqVars == <<req, calc>>
histVars == <<trace, binary>>
matVars == <<rows, cols, image, flowField, src32, dog, fDog, result>>
kernelVars == <<gvc, gvs, gausVec>>
accVars == <<gauAcc, gauWeightAcc>>
syncVars == <<wg, mu, task>>

NoOpts == [set |-> FALSE]

NoMat == <<>>

NoMinMax == [smin |-> 0, smax |-> 0]

\* No function is called on its own while Handle serves a request.
NoCalc == [op |-> "none"]

\* Picture and field of the simplest requests: one white pixel, no tangent.
PlainPicture == [h |-> 1, w |-> 1, gray |-> [p \in Pix(1, 1) |-> 255]]

PlainDirection == <<0, 0>>

\* Requests that run a single filter pass on every picture and field.
PipelineRequests ==
    {[mode |-> "url", fetch |-> "ok", body |-> "jpeg", output |-> "image",
      query |-> q, picture |-> pic, direction |-> d] :
        q \in {r \in Queries({"di", "tau"}, 2) :
                  r["di"] = <<"0">> /\ r["tau"] \in {<<>>, <<"0", ".", "5">>}},
        pic \in Pictures, d \in Directions}

\* Requests that vary the query parameters on a picture of one pixel.
ParamRequests ==
    {[mode |-> "url", fetch |-> "ok", body |-> "jpeg", output |-> "image",
      query |-> q, picture |-> PlainPicture, direction |-> PlainDirection] :
        q \in Queries(Keys, MaxParams)}

\* Requests that vary the input mode, the body and the output mode.
IntakeRequests ==
    {[mode |-> m, fetch |-> f, body |-> b, output |-> o,
      query |-> NoQuery, picture |-> PlainPicture,
      direction |-> PlainDirection] :
        m \in {"url", "raw"}, f \in {"ok", "fail", "redirects"},
        b \in {"jpeg", "png", "b64jpeg", "b64png", "text"},
        o \in {"image", "none"}}

Requests == PipelineRequests \cup ParamRequests \cup IntakeRequests

\* Nothing is built before Handle runs.
Fresh ==
    /\ opts = NoOpts
    /\ response = "none"
    /\ rows = 0 /\ cols = 0
    /\ image = NoMat /\ flowField = NoMat /\ src32 = NoMat
    /\ dog = NoMat /\ fDog = NoMat /\ result = NoMat
    /\ gvc = <<>> /\ gvs = <<>> /\ gausVec = <<>>
    /\ gauAcc = 0 /\ gauWeightAcc = 0
    /\ wg = 0 /\ mu = "free" /\ stage = "none" /\ task = NoMat
    /\ next = 0 /\ i = 0 /\ refined = 0
    /\ mm = NoMinMax /\ blurTmp = NoMat
    /\ trace = <<>>
    /\ binary = NoMat

Init ==
    /\ req \in Requests
    /\ calc = NoCalc
    /\ pc = "Handle"
    /\ Fresh

(***************************************************************************)
(* Handle (handler.go): intake, parameters, options.                       *)
(***************************************************************************)
\* http.DetectContentType(req) of the body as sent.
DetectContentType(body) ==
    CASE body = "jpeg" -> "image/jpeg"
      [] body = "png" -> "image/png"
      [] OTHER -> "text/plain; charset=utf-8"

\* What the bytes handed to NewCLD decode to: base64 is decoded first in
\* the raw mode only.
DataKind(r) ==
    IF r.mode # "url" /\ r.body = "b64jpeg" THEN "jpeg"
    ELSE IF r.mode # "url" /\ r.body = "b64png" THEN "png"
    ELSE r.body

\* params of Handle: the URL's query in the url mode, nil otherwise.
Params(r) == IF r.mode = "url" THEN r.query ELSE NoQuery

FloatParam(params, key, default) ==
    IF Get(params, key) # <<>> THEN ParseFloat(Get(params, key)).val
    ELSE default

IntParam(params, key, default) ==
    IF Get(params, key) # <<>> THEN ParseInt(Get(params, key)).val
    ELSE default

antiAliasParam(params) ==
    IF Get(params, "ai") # <<>> THEN ParseBool(Get(params, "ai")).val
    ELSE FALSE

\* The options struct of handler.go 139-150.
Options(params) ==
    [set |-> TRUE,
     sigmaR |-> FloatParam(params, "sr", DivRound(26 * Scale, 10)),
     sigmaM |-> FloatParam(params, "sm", 3 * Scale),
     sigmaC |-> FloatParam(params, "sc", Scale),
     rho |-> FloatParam(params, "rho", DivRound(98 * Scale, 100)),
     tau |-> FloatParam(params, "tau", DivRound(98 * Scale, 100)),
     etfKernel |-> IntParam(params, "k", 1),
     etfIteration |-> IntParam(params, "ei", 1),
     fDogIteration |-> IntParam(params, "di", 1),
     blurSize |-> IntParam(params, "bl", 3),
     antiAlias |-> antiAliasParam(params)]

\* The message Handle returns on a content type it does not accept.
OnlyJpegOrPng == "Only jpeg or png images"

UnableToDownload == "Unable to download image file from URI"

Handle ==
    /\ pc = "Handle"
    /\ IF req.mode = "url" /\ req.fetch = "fail"
       THEN \* resp is nil when http.Get fails: resp.Status panics
            /\ pc' = "crashed"
            /\ response' = "panic: nil pointer dereference"
            /\ opts' = opts
       ELSE IF req.mode = "url" /\ req.fetch = "redirects"
       THEN \* CheckRedirect failed: err and a response with a Status
            /\ pc' = "done"
            /\ response' = UnableToDownload
            /\ opts' = opts
       ELSE IF req.mode # "url" /\
               DetectContentType(req.body) \notin {"image/jpeg", "image/png"}
       THEN /\ pc' = "done"
            /\ response' = OnlyJpegOrPng
            /\ opts' = opts
       ELSE /\ opts' = Options(Params(req))
            /\ IF req.output \in {"image", "json_image"}
               THEN pc' = "NewCLD" /\ response' = response
               ELSE pc' = "done" /\ response' = "empty"
    /\ UNCHANGED <<reqVars, matVars, kernelVars, accVars, syncVars, stage,
                   next, i, refined, mm, blurTmp, histVars>>

(***************************************************************************)
(* NewCLD (cld.go 69-104).                                                 *)
(***************************************************************************)
\* gocv.IMRead gives an empty Mat for bytes that are no image, and the
\* field cannot be initialised from it.
Readable(r) == DataKind(r) \in {"jpeg", "png"}

NewCLD ==
    /\ pc = "NewCLD"
    /\ IF ~Readable(req)
       THEN \* NewCLD returns an error and Handle ends in log.Fatalf
            /\ pc' = "crashed"
            /\ response' = "fatal: cannot initialize CLD"
            /\ UNCHANGED <<matVars, task>>
       ELSE /\ rows' = req.picture.h
            /\ cols' = req.picture.w
            /\ image' = req.picture.gray
            /\ result' = NewMatWithSize(req.picture.h, req.picture.w)
            /\ dog' = NewMatWithSize(req.picture.h, req.picture.w)
            /\ fDog' = NewMatWithSize(req.picture.h, req.picture.w)
            /\ flowField' = [p \in Pix(req.picture.h, req.picture.w) |->
                                req.direction]
            /\ task' = [p \in Pix(req.picture.h, req.picture.w) |-> "none"]
            /\ src32' = src32
            /\ pc' = "RefineEtf"
            /\ response' = response
    /\ UNCHANGED <<reqVars, opts, kernelVars, accVars, wg, mu, stage, next, i,
                   refined, mm, blurTmp, histVars>>

\* Whether the loop "if n > 0 { for i := 0; i < n; i++ {" of NewCLD runs
\* once more after k passes.
RefineContinuesMutInclusive(n, k) == n > 0 /\ k <= n

RefineContinues(n, k) == n > 0 /\ k < n

\* One pass of the loop "for i < etfIteration { etf.RefineEtf(etfKernel) }".
\* A pass leaves a uniform field as it is: every vote is the pixel's own
\* direction, and a zero vote changes nothing.
RefineEtf ==
    /\ pc = "RefineEtf"
    /\ RefineContinues(opts.etfIteration, refined)
    /\ refined' = refined + 1
    /\ UNCHANGED <<reqVars, pc, opts, response, matVars, kernelVars, accVars,
                   syncVars, stage, next, i, mm, blurTmp, histVars>>

\* NewCLD returns and Handle calls GenerateCld.
GenerateCld ==
    /\ pc = "RefineEtf"
    /\ ~RefineContinues(opts.etfIteration, refined)
    /\ pc' = "generate"
    /\ UNCHANGED <<reqVars, opts, response, matVars, kernelVars, accVars,
                   syncVars, stage, next, i, refined, mm, blurTmp, histVars>>

(***************************************************************************)
(* Goroutines: spawning, the mutex, the WaitGroup.                         *)
(***************************************************************************)
NumPixels == rows * cols

AllPix == Pix(rows, cols)

\* The goroutines run while the process lives.
Alive == pc \notin {"crashed", "done"}

\* "go func(y, x)" of the spawning loop standing at spawnPc; add is what
\* the loop adds to the WaitGroup per goroutine.
Spawn(spawnPc, add) ==
    /\ pc = spawnPc
    /\ next < NumPixels
    /\ task' = [task EXCEPT ![PixelAt(next, cols)] = "ready"]
    /\ next' = next + 1
    /\ wg' = wg + add
    /\ UNCHANGED <<reqVars, pc, opts, response, matVars, kernelVars, accVars,
                   mu, stage, i, refined, mm, blurTmp, histVars>>

LockMutNoMutex(p) ==
    /\ Alive
    /\ task[p] = "ready"
    /\ mu' = "held"
    /\ task' = [task EXCEPT ![p] = "locked"]
    /\ UNCHANGED <<reqVars, pc, opts, response, matVars, kernelVars, accVars,
                   wg, stage, next, i, refined, mm, blurTmp, histVars>>

\* c.etf.mu.Lock() of the goroutine of pixel p.
Lock(p) ==
    /\ Alive
    /\ task[p] = "ready"
    /\ mu = "free"
    /\ mu' = "held"
    /\ task' = [task EXCEPT ![p] = "locked"]
    /\ UNCHANGED <<reqVars, pc, opts, response, matVars, kernelVars, accVars,
                   wg, stage, next, i, refined, mm, blurTmp, histVars>>

\* The deferred c.etf.mu.Unlock() of the goroutine that called c.wg.Done().
Unlock ==
    /\ Alive
    /\ mu = "exiting"
    /\ mu' = "free"
    /\ UNCHANGED <<reqVars, pc, opts, response, matVars, kernelVars, accVars,
                   wg, task, stage, next, i, refined, mm, blurTmp, histVars>>

\* c.wg.Done() and the return of the goroutine of pixel p.
Done(p) ==
    /\ wg' = wg - 1
    /\ task' = [task EXCEPT ![p] = "exited"]
    /\ mu' = "exiting"

\* Whether c.wg.Wait() returns.
WaitReturns == wg = 0

Idle == [p \in AllPix |-> "none"]

(***************************************************************************)
(* generate and gradientDoG (cld.go 127-195).                              *)
(***************************************************************************)
generate ==
    /\ pc = "generate"
    /\ src32' = ConvertTo32F(image)
    /\ pc' = "gradientDoG"
    /\ UNCHANGED <<reqVars, opts, response, rows, cols, image, flowField, dog,
                   fDog, result, kernelVars, accVars, syncVars, stage, next,
                   i, refined, mm, blurTmp, histVars>>

\* sigmaS of gradientDoG.
SigmaS == FMul(opts.sigmaR, opts.sigmaC)

\* gradientDoG up to its spawning loop; makeGaussianVector does not return
\* when its search loop never breaks.
gradientDoG ==
    /\ pc = "gradientDoG"
    /\ LET c == makeGaussianVector(opts.sigmaC)
           s == IF Returned(c) THEN makeGaussianVector(SigmaS) ELSE <<>>
       IN
       IF Returned(c) /\ Returned(s)
       THEN /\ gvc' = c
            /\ gvs' = s
            /\ wg' = wg + NumPixels
            /\ stage' = "gradientDoG"
            /\ task' = Idle
            /\ next' = 0
            /\ pc' = "gradientDoG_go"
       ELSE /\ pc' = "makeGaussianVector"
            /\ UNCHANGED <<gvc, gvs, wg, stage, task, next>>
    /\ UNCHANGED <<reqVars, opts, response, matVars, gausVec, accVars, mu, i,
                   refined, mm, blurTmp, histVars>>

\* The search loop of makeGaussianVector going round once more.
makeGaussianVectorLoop ==
    /\ pc = "makeGaussianVector"
    /\ UNCHANGED vars

gradientDoGGo == Spawn("gradientDoG_go", 0)

gradientDoGTask(p) ==
    /\ Alive
    /\ stage = "gradientDoG"
    /\ task[p] = "locked"
    /\ dog' = [dog EXCEPT ![p] = GradientValue(src32, flowField, gvc, gvs,
                                     opts.rho, rows, cols, p[1], p[2])]
    /\ Done(p)
    /\ UNCHANGED <<reqVars, pc, opts, response, rows, cols, image, flowField,
                   src32, fDog, result, kernelVars, accVars, stage, next, i,
                   refined, mm, blurTmp, histVars>>

gradientDoGWait ==
    /\ pc = "gradientDoG_go"
    /\ next = NumPixels
    /\ WaitReturns
    /\ pc' = "flowDoG"
    /\ trace' = Append(trace, "gradientDoG")
    /\ UNCHANGED <<reqVars, opts, response, matVars, kernelVars, accVars,
                   syncVars, stage, next, i, refined, mm, blurTmp, binary>>

(***************************************************************************)
(* flowDoG (cld.go 198-302).                                               *)
(***************************************************************************)
flowDoG ==
    /\ pc = "flowDoG"
    /\ LET g == makeGaussianVector(opts.sigmaM)
       IN
       IF Returned(g)
       THEN /\ gausVec' = g
            /\ wg' = wg + NumPixels
            /\ stage' = "flowDoG"
            /\ task' = Idle
            /\ next' = 0
            /\ pc' = "flowDoG_go"
       ELSE /\ pc' = "makeGaussianVector"
            /\ UNCHANGED <<gausVec, wg, stage, task, next>>
    /\ UNCHANGED <<reqVars, opts, response, matVars, gvc, gvs, accVars, mu, i,
                   refined, mm, blurTmp, histVars>>

flowDoGGo == Spawn("flowDoG_go", 0)

\* The goroutine of pixel p sets the shared accumulators and walks the
\* field in both directions (cld.go 216-279).
flowDoGAccumulate(p) ==
    /\ Alive
    /\ stage = "flowDoG"
    /\ task[p] = "locked"
    /\ LET a == FlowAcc(dog, flowField, gausVec, rows, cols, p[1], p[2])
       IN  /\ gauAcc' = a.gauAcc
           /\ gauWeightAcc' = a.gauWeightAcc
    /\ task' = [task EXCEPT ![p] = "walked"]
    /\ UNCHANGED <<reqVars, pc, opts, response, matVars, kernelVars, wg, mu,
                   stage, next, i, refined, mm, blurTmp, histVars>>

\* dst.SetFloatAt(y, x, newVal(gauAcc, gauWeightAcc)) and c.wg.Done().
flowDoGWrite(p) ==
    /\ Alive
    /\ stage = "flowDoG"
    /\ task[p] = "walked"
    /\ fDog' = [fDog EXCEPT ![p] = newVal(gauAcc, gauWeightAcc)]
    /\ Done(p)
    /\ UNCHANGED <<reqVars, pc, opts, response, rows, cols, image, flowField,
                   src32, dog, result, kernelVars, accVars, stage, next, i,
                   refined, mm, blurTmp, histVars>>

\* gocv.Normalize(*dst, dst, 0.0, 1.0, NormMinMax), first phase: the
\* minimum and maximum of the raster as it is now.
NormalizeMinMax ==
    /\ pc = "flowDoG_go"
    /\ next = NumPixels
    /\ mm' = MinMaxIdx(fDog)
    /\ pc' = "flowDoG_normalize"
    /\ UNCHANGED <<reqVars, opts, response, matVars, kernelVars, accVars,
                   syncVars, stage, next, i, refined, blurTmp, histVars>>

\* Second phase: every cell rescaled in place.
NormalizeConvert ==
    /\ pc = "flowDoG_normalize"
    /\ fDog' = NormalizeConvertTo(fDog, mm, 0, One)
    /\ pc' = "flowDoG_wait"
    /\ UNCHANGED <<reqVars, opts, response, rows, cols, image, flowField,
                   src32, dog, result, kernelVars, accVars, syncVars, stage,
                   next, i, refined, mm, blurTmp, histVars>>

flowDoGWait ==
    /\ pc = "flowDoG_wait"
    /\ WaitReturns
    /\ pc' = "binaryThreshold"
    /\ trace' = Append(trace, "flowDoG")
    /\ UNCHANGED <<reqVars, opts, response, matVars, kernelVars, accVars,
                   syncVars, stage, next, i, refined, mm, blurTmp, binary>>

(***************************************************************************)
(* binaryThreshold (cld.go 305-331).                                       *)
(***************************************************************************)
binaryThreshold ==
    /\ pc = "binaryThreshold"
    /\ wg' = wg + NumPixels
    /\ stage' = "binaryThreshold"
    /\ task' = Idle
    /\ next' = 0
    /\ pc' = "binaryThreshold_go"
    /\ UNCHANGED <<reqVars, opts, response, matVars, kernelVars, accVars, mu,
                   i, refined, mm, blurTmp, histVars>>

binaryThresholdGo == Spawn("binaryThreshold_go", 0)

binaryThresholdTask(p) ==
    /\ Alive
    /\ stage = "binaryThreshold"
    /\ task[p] = "locked"
    /\ result' = [result EXCEPT ![p] = ThresholdValue(fDog[p], opts.tau)]
    /\ Done(p)
    /\ UNCHANGED <<reqVars, pc, opts, response, rows, cols, image, flowField,
                   src32, dog, fDog, kernelVars, accVars, stage, next, i,
                   refined, mm, blurTmp, histVars>>

\* binaryThreshold and with it generate return to GenerateCld.
binaryThresholdWait ==
    /\ pc = "binaryThreshold_go"
    /\ next = NumPixels
    /\ WaitReturns
    /\ pc' = "GenerateCld_loop"
    /\ trace' = Append(trace, "binaryThreshold")
    /\ binary' = result
    /\ UNCHANGED <<reqVars, opts, response, matVars, kernelVars, accVars,
                   syncVars, stage, next, i, refined, mm, blurTmp>>

(***************************************************************************)
(* GenerateCld's loop and combineImage (cld.go 111-116, 333-353).          *)
(***************************************************************************)
\* Whether the loop "if n > 0 { for i := 0; i < n; i++ {" runs once more.
LoopContinuesMutInclusive(n, k) == n > 0 /\ k <= n

LoopContinuesMutAbs(n, k) == k < Abs(n)

LoopContinues(n, k) == n > 0 /\ k < n

\* The loop test; its body starts with combineImage's spawning loop.
GenerateCldLoop ==
    /\ pc = "GenerateCld_loop"
    /\ IF LoopContinues(opts.fDogIteration, i)
       THEN /\ i' = i + 1
            /\ stage' = "combineImage"
            /\ task' = Idle
            /\ next' = 0
            /\ pc' = "combineImage_go"
       ELSE /\ pc' = "PostProcessing"
            /\ UNCHANGED <<i, stage, task, next>>
    /\ UNCHANGED <<reqVars, opts, response, matVars, kernelVars, accVars, wg,
                   mu, refined, mm, blurTmp, histVars>>

combineImageGo == Spawn("combineImage_go", 1)

combineImageTask(p) ==
    /\ Alive
    /\ stage = "combineImage"
    /\ task[p] = "locked"
    /\ image' = IF result[p] = 0 THEN [image EXCEPT ![p] = 0] ELSE image
    /\ Done(p)
    /\ UNCHANGED <<reqVars, pc, opts, response, rows, cols, flowField, src32,
                   dog, fDog, result, kernelVars, accVars, stage, next, i,
                   refined, mm, blurTmp, histVars>>

\* gocv.GaussianBlur(c.image, &c.image, ...), first phase: the source is
\* read; OpenCV throws on a kernel size that is not odd and positive.
GaussianBlurRead ==
    /\ pc = "combineImage_go"
    /\ next = NumPixels
    /\ IF BlurSizeOk(opts.blurSize)
       THEN /\ blurTmp' = image
            /\ pc' = "combineImage_blur"
            /\ response' = response
       ELSE /\ pc' = "crashed"
            /\ response' = "exception: GaussianBlur"
            /\ blurTmp' = blurTmp
    /\ UNCHANGED <<reqVars, opts, matVars, kernelVars, accVars, syncVars,
                   stage, next, i, refined, mm, histVars>>

\* Second phase: the blurred raster is stored in c.image.
GaussianBlurWrite ==
    /\ pc = "combineImage_blur"
    /\ image' = GaussianBlur(blurTmp, rows, cols, opts.blurSize)
    /\ pc' = "combineImage_wait"
    /\ UNCHANGED <<reqVars, opts, response, rows, cols, flowField, src32, dog,
                   fDog, result, kernelVars, accVars, syncVars, stage, next,
                   i, refined, mm, blurTmp, histVars>>

combineImageWait ==
    /\ pc = "combineImage_wait"
    /\ WaitReturns
    /\ pc' = "generate"
    /\ trace' = Append(trace, "combineImage")
    /\ UNCHANGED <<reqVars, opts, response, matVars, kernelVars, accVars,
                   syncVars, stage, next, i, refined, mm, blurTmp, binary>>

(***************************************************************************)
(* Post processing and the return (cld.go 118-123, handler.go 179-211).    *)
(***************************************************************************)
\* Whether GenerateCld runs the anti-alias pass.
RunsAntiAliasMutAlways(o) == TRUE

RunsAntiAlias(o) == o.antiAlias

PostProcessing ==
    /\ pc = "PostProcessing"
    /\ IF ~RunsAntiAlias(opts)
       THEN /\ pc' = "return"
            /\ UNCHANGED <<result, response, histVars>>
       ELSE IF BlurSizeOk(opts.blurSize)
       THEN /\ result' = AntiAlias(result, rows, cols, opts.blurSize)
            /\ trace' = Append(trace, "AntiAlias")
            /\ pc' = "return"
            /\ response' = response
       ELSE /\ pc' = "crashed"
            /\ response' = "exception: GaussianBlur"
            /\ UNCHANGED <<result, histVars>>
    /\ UNCHANGED <<reqVars, opts, rows, cols, image, flowField, src32, dog,
                   fDog, kernelVars, accVars, syncVars, stage, next, i,
                   refined, mm, blurTmp, binary>>

\* c.result.ToBytes() goes back to Handle, which encodes it as a JPEG.
Return ==
    /\ pc = "return"
    /\ response' = "image"
    /\ pc' = "done"
    /\ UNCHANGED <<reqVars, opts, matVars, kernelVars, accVars, syncVars,
                   stage, next, i, refined, mm, blurTmp, histVars>>

TaskStep ==
    \E p \in DOMAIN task :
        \/ Lock(p)
        \/ gradientDoGTask(p)
        \/ flowDoGAccumulate(p)
        \/ flowDoGWrite(p)
        \/ binaryThresholdTask(p)
        \/ combineImageTask(p)

Next ==
    \/ Handle
    \/ NewCLD
    \/ RefineEtf
    \/ GenerateCld
    \/ generate
    \/ gradientDoG
    \/ makeGaussianVectorLoop
    \/ gradientDoGGo
    \/ gradientDoGWait
    \/ flowDoG
    \/ flowDoGGo
    \/ NormalizeMinMax
    \/ NormalizeConvert
    \/ flowDoGWait
    \/ binaryThreshold
    \/ binaryThresholdGo
    \/ binaryThresholdWait
    \/ GenerateCldLoop
    \/ combineImageGo
    \/ GaussianBlurRead
    \/ GaussianBlurWrite
    \/ combineImageWait
    \/ PostProcessing
    \/ Return
    \/ TaskStep
    \/ Unlock

Spec == Init /\ [][Next]_vars

\* Some goroutine can take a step that changes the state: the request is
\* still being served, and while the main goroutine is inside the search
\* loop of makeGaussianVector only the deferred Unlock of the last goroutine
\* of the stage before is left to run.  On every reachable state this is
\* ENABLED <<Next>>_vars.
CanStep == Alive /\ (pc = "makeGaussianVector" => mu = "exiting")

\* The Go scheduler runs every goroutine that can take a step: the
\* goroutine that called Done reaches its deferred Unlock, and a step is
\* taken whenever one stays possible.  The second condition is
\* WF_vars(Next) with its enabling condition written as CanStep.
FairSpec ==
    /\ Spec
    /\ WF_vars(Unlock)
    /\ ([]<>(~CanStep) \/ []<><<Next>>_vars)

(***************************************************************************)
(* makeGaussianVector on its own: the kernels for sigma and for 2*sigma.   *)
(***************************************************************************)
\* Largest sigma of the calls, in tenths.
MaxSigma == 60

\* The sigmas 0.1, 0.2, ... of the calls.
Sigmas == {DivRound(n * Scale, 10) : n \in 1..MaxSigma}

\* The request of a state in which no request is served.
NoRequest ==
    [mode |-> "raw", fetch |-> "ok", body |-> "jpeg", output |-> "none",
     query |-> NoQuery, picture |-> PlainPicture, direction |-> PlainDirection]

GaussInit ==
    /\ req = NoRequest
    /\ calc \in {[op |-> "makeGaussianVector", at |-> "call", sigma |-> s,
                  gau |-> <<>>, gau2 |-> <<>>] : s \in Sigmas}
    /\ pc = "none"
    /\ Fresh

calcFrame == <<req, pc, opts, response, matVars, kernelVars, accVars,
               syncVars, stage, next, i, refined, mm, blurTmp, histVars>>

\* gau := makeGaussianVector(sigma)
makeGaussianVectorCall ==
    /\ calc.op = "makeGaussianVector"
    /\ calc.at = "call"
    /\ calc' = [calc EXCEPT !.gau = makeGaussianVector(calc.sigma),
                            !.at = "double"]
    /\ UNCHANGED calcFrame

\* gau2 := makeGaussianVector(2 * sigma)
makeGaussianVectorDouble ==
    /\ calc.op = "makeGaussianVector"
    /\ calc.at = "double"
    /\ calc' = [calc EXCEPT !.gau2 = makeGaussianVector(2 * calc.sigma),
                            !.at = "done"]
    /\ UNCHANGED calcFrame

GaussNext == makeGaussianVectorCall \/ makeGaussianVectorDouble

GaussSpec == GaussInit /\ [][GaussNext]_vars

(***************************************************************************)
(* The body of one pixel goroutine of gradientDoG and of flowDoG on its    *)
(* own, for every raster, field and start pixel.                           *)
(***************************************************************************)
\* The tangent vectors of a field: zero or of unit length.
FieldVectors == Directions \cup {<<Scale, 0>>, <<0, 0 - Scale>>}

\* The samples of a source raster: -0.5, 0 and 0.02.
Samples == {0 - DivRound(Scale, 2), 0, DivRound(2 * Scale, 100)}

\* The raster sizes of at most MaxPixels pixels.
Shapes == {d \in (1..MaxPixels) \X (1..MaxPixels) : d[1] * d[2] <= MaxPixels}

\* The calls of one pixel body with the kernels of the default sigmas.
PixelCalls ==
    LET kc == makeGaussianVector(Scale)
        ks == makeGaussianVector(FMul(DivRound(26 * Scale, 10), Scale))
        km == makeGaussianVector(3 * Scale)
    IN  UNION {{[op |-> o, at |-> "call", h |-> d[1], w |-> d[2], src |-> m,
                 field |-> f, p |-> q, gvc |-> kc, gvs |-> ks,
                 gausVec |-> km, acc |-> <<>>, val |-> 0] :
                   o \in {"gradientDoG", "flowDoG"},
                   m \in [Pix(d[1], d[2]) -> Samples],
                   f \in [Pix(d[1], d[2]) -> FieldVectors],
                   q \in Pix(d[1], d[2])} :
               d \in Shapes}

PixelInit ==
    /\ req = NoRequest
    /\ calc \in PixelCalls
    /\ pc = "none"
    /\ Fresh

\* The body of the goroutine of gradientDoG for pixel calc.p.
gradientDoGPixel ==
    /\ calc.op = "gradientDoG"
    /\ calc.at = "call"
    /\ calc' = [calc EXCEPT
                  !.acc = GradientAcc(calc.src, calc.field, calc.gvc, calc.gvs,
                                      calc.h, calc.w, calc.p[1], calc.p[2]),
                  !.val = GradientValue(calc.src, calc.field, calc.gvc,
                                        calc.gvs, DivRound(98 * Scale, 100),
                                        calc.h, calc.w, calc.p[1], calc.p[2]),
                  !.at = "stored"]
    /\ UNCHANGED calcFrame

\* The centre tap and both walks of the goroutine of flowDoG for calc.p.
flowDoGPixelWalk ==
    /\ calc.op = "flowDoG"
    /\ calc.at = "call"
    /\ calc' = [calc EXCEPT
                  !.acc = FlowAcc(calc.src, calc.field, calc.gausVec, calc.h,
                                  calc.w, calc.p[1], calc.p[2]),
                  !.at = "walked"]
    /\ UNCHANGED calcFrame

\* dst.SetFloatAt(y, x, newVal(gauAcc, gauWeightAcc))
flowDoGPixelStore ==
    /\ calc.op = "flowDoG"
    /\ calc.at = "walked"
    /\ calc' = [calc EXCEPT
                  !.val = newVal(calc.acc.gauAcc, calc.acc.gauWeightAcc),
                  !.at = "stored"]
    /\ UNCHANGED calcFrame

PixelNext == gradientDoGPixel \/ flowDoGPixelWalk \/ flowDoGPixelStore

PixelSpec == PixelInit /\ [][PixelNext]_vars

(***************************************************************************)
(* The indices one pixel goroutine reads, for fields whose vectors point   *)
(* along the axes and aslant in every sense.                               *)
(***************************************************************************)
\* The tangent vectors of a field: zero or of unit length, among them
\* (0.28, 0.96) and its mirror images, whose steps leave a position that
\* rounds into the raster while it lies outside.
WalkVectors ==
    FieldVectors \cup
        {<<DivRound(28 * Scale, 100), DivRound(96 * Scale, 100)>>,
         <<DivRound(96 * Scale, 100), DivRound(28 * Scale, 100)>>,
         <<0 - DivRound(28 * Scale, 100), DivRound(96 * Scale, 100)>>}

\* The calls of one pixel body on a raster of one sample, 0.02: the indices
\* read depend on the field and on the start pixel only.
IndexCalls ==
    LET kc == makeGaussianVector(Scale)
        ks == makeGaussianVector(FMul(DivRound(26 * Scale, 10), Scale))
        km == makeGaussianVector(3 * Scale)
    IN  UNION {{[op |-> o, at |-> "call", h |-> d[1], w |-> d[2],
                 src |-> [u \in Pix(d[1], d[2]) |-> DivRound(2 * Scale, 100)],
                 field |-> f, p |-> q, gvc |-> kc, gvs |-> ks,
                 gausVec |-> km, acc |-> <<>>, val |-> 0] :
                   o \in {"gradientDoG", "flowDoG"},
                   f \in [Pix(d[1], d[2]) -> WalkVectors],
                   q \in Pix(d[1], d[2])} :
               d \in Shapes}

IndexInit ==
    /\ req = NoRequest
    /\ calc \in IndexCalls
    /\ pc = "none"
    /\ Fresh

IndexSpec == IndexInit /\ [][PixelNext]_vars

(***************************************************************************)
(* Properties.                                                             *)
(***************************************************************************)
\* Every goroutine of the current stage has stored its cell and returned.
AllExited == \A p \in DOMAIN task : task[p] = "exited"

\* The value the flowDoG goroutine of pixel p stores, from c.dog.
FlowRaw(d) ==
    [p \in DOMAIN d |->
        LET a == FlowAcc(d, flowField, gausVec, rows, cols, p[1], p[2])
        IN  newVal(a.gauAcc, a.gauWeightAcc)]

\* C1: in flowDoG the min-max normalization of the destination raster runs
\* only after every pixel goroutine of the pass has stored its cell (once
\* Normalize has read the raster no goroutine is pending or running), and
\* binaryThreshold reads the fully normalized raster of the pass.
C1_NormalizeAfterAllTasks ==
    /\ pc \in {"flowDoG_normalize", "flowDoG_wait"} => AllExited
    /\ pc = "binaryThreshold" => fDog = Normalize(FlowRaw(dog), 0, One)

\* C2: in combineImage the blur starts only after every zeroing goroutine
\* has completed: once GaussianBlur has read the working raster no goroutine
\* of the recombination is pending, and every pixel whose binary result is 0
\* is 0 in what the blur has read.
C2_BlurAfterAllZeroing ==
    pc = "combineImage_blur" =>
        /\ AllExited
        /\ \A p \in DOMAIN result : result[p] = 0 => blurTmp[p] = 0

\* One filter pass and one recombination with a full barrier after every
\* stage, as functions of the working raster.
BarrierGenerate(img) ==
    LET s == ConvertTo32F(img)
        d == [p \in DOMAIN img |->
                GradientValue(s, flowField, gvc, gvs, opts.rho, rows, cols,
                              p[1], p[2])]
        f == Normalize(FlowRaw(d), 0, One)
    IN  [p \in DOMAIN img |-> ThresholdValue(f[p], opts.tau)]

BarrierCombine(img, bin) ==
    GaussianBlur([p \in DOMAIN img |-> IF bin[p] = 0 THEN 0 ELSE img[p]],
                 rows, cols, opts.blurSize)

\* The raster GenerateCld returns when every goroutine of a stage runs
\* before the main goroutine's next step: n recombinations from img.
RECURSIVE BarrierLoop(_, _)
BarrierLoop(img, n) ==
    IF n <= 0 THEN BarrierGenerate(img)
    ELSE BarrierLoop(BarrierCombine(img, BarrierGenerate(img)), n - 1)

BarrierOutput ==
    LET r == BarrierLoop(req.picture.gray, opts.fDogIteration)
    IN  IF opts.antiAlias THEN AntiAlias(r, rows, cols, opts.blurSize) ELSE r

\* C3: for a fixed picture, field and configuration the raster GenerateCld
\* returns is the same under every schedule: it is the raster of the
\* schedule that runs every goroutine of a stage before the main goroutine
\* moves on.
C3_OutputIndependentOfSchedule ==
    pc = "return" => result = BarrierOutput

\* The stages of trace without the post processing.
Stages == SelectSeq(trace, LAMBDA e : e # "AntiAlias")

FilterPass == <<"gradientDoG", "flowDoG", "binaryThreshold">>

\* Filter (Recombine Filter)^n.
RECURSIVE Alternation(_)
Alternation(n) ==
    IF n <= 0 THEN FilterPass
    ELSE Alternation(n - 1) \o <<"combineImage">> \o FilterPass

IsPrefix(a, b) == Len(a) <= Len(b) /\ a = SubSeq(b, 1, Len(a))

\* The stages run so far follow Filter (Recombine Filter)^n, all of it once
\* GenerateCld returns, and combineImage is never entered when n = 0.
AlternationHolds ==
    /\ IsPrefix(Stages, Alternation(opts.fDogIteration))
    /\ opts.fDogIteration = 0 => stage # "combineImage"
    /\ pc = "return" => Stages = Alternation(opts.fDogIteration)

\* C4 as stated: for fDogIteration = n >= 0 GenerateCld runs Filter
\* (Recombine Filter)^n, with n = 0 combineImage is never invoked, and the
\* returned raster is the binary raster of the last filter pass.
C4_AlternationAndBinaryReturned ==
    (opts.set /\ opts.fDogIteration >= 0) =>
        /\ AlternationHolds
        /\ pc = "return" => result = binary

\* C4 amended: as above, and the returned raster is the binary raster of the
\* last filter pass when antiAlias is false, its anti-aliased image when
\* antiAlias is true.
C4_AlternationAndReturned ==
    (opts.set /\ opts.fDogIteration >= 0) =>
        /\ AlternationHolds
        /\ pc = "return" =>
              result = IF opts.antiAlias
                       THEN AntiAlias(binary, rows, cols, opts.blurSize)
                       ELSE binary

\* GenerateCld returns after two recombinations and three filter passes.
C4_Witness ==
    /\ pc = "return"
    /\ opts.fDogIteration = 2
    /\ Len(Stages) = 11
    /\ ~opts.antiAlias
    /\ result = binary

\* C5: with antiAlias false every cell of the returned raster is 0 or 255
\* and the raster has the rows and columns of the input picture; the
\* anti-alias pass runs at most once, after the last filter pass, and only
\* when antiAlias is true.
C5_TwoValuedSameSize ==
    /\ (pc = "return" /\ ~opts.antiAlias) =>
          /\ DOMAIN result = Pix(req.picture.h, req.picture.w)
          /\ \A p \in DOMAIN result : result[p] \in {0, 255}
    /\ \A n \in 1..Len(trace) :
          trace[n] = "AntiAlias" =>
              /\ opts.antiAlias
              /\ n = Len(trace)
              /\ n > 1 /\ trace[n - 1] = "binaryThreshold"
              /\ pc \in {"return", "done"}

\* A raster of two cells is returned without anti-aliasing, one cell black
\* and one white.
C5_Witness ==
    /\ pc = "return"
    /\ ~opts.antiAlias
    /\ \E p, q \in DOMAIN result : result[p] = 0 /\ result[q] = 255

\* Every cell of c.fDog lies in [0, 1].
InUnit == \A p \in DOMAIN fDog : fDog[p] >= 0 /\ fDog[p] <= One

\* C6: binaryThreshold maps each cell on its own to 0 if its value is < tau
\* and to 255 otherwise; so for inputs in [0, 1], tau <= 0 gives an all-255
\* raster and tau > 1 an all-0 raster, and the output is two-valued.
C6_ThresholdStep ==
    /\ pc \in {"binaryThreshold_go", "GenerateCld_loop"} =>
          \A p \in DOMAIN task :
              task[p] = "exited" =>
                  result[p] = IF fDog[p] < opts.tau THEN 0 ELSE 255
    /\ (pc = "GenerateCld_loop" /\ InUnit) =>
          /\ opts.tau <= 0 => \A p \in DOMAIN result : result[p] = 255
          /\ opts.tau > One => \A p \in DOMAIN result : result[p] = 0
    /\ pc = "GenerateCld_loop" =>
          \A p \in DOMAIN result : result[p] \in {0, 255}

\* binaryThreshold has returned an all-0 raster for a tau above 1 and a
\* raster with a white cell in [0, 1].
C6_Witness ==
    /\ pc = "GenerateCld_loop"
    /\ opts.tau > One
    /\ InUnit
    /\ \E p \in DOMAIN fDog : fDog[p] = One
    /\ \A p \in DOMAIN result : result[p] = 0

\* The options hold a sigma that is not positive.
NonPositiveSigma ==
    opts.set /\ (opts.sigmaC <= 0 \/ opts.sigmaM <= 0 \/ SigmaS <= 0)

\* The main goroutine has called makeGaussianVector.
KernelBuilderCalled ==
    pc \notin {"Handle", "NewCLD", "RefineEtf", "generate", "gradientDoG",
               "done", "crashed"}

\* C7: a configuration with a sigma that is not positive is rejected before
\* any filter pass runs: the kernel builder is never executed with it and no
\* image is returned.
C7_NonPositiveSigmaRejected ==
    NonPositiveSigma =>
        /\ ~KernelBuilderCalled
        /\ trace = <<>>
        /\ response # "image"

\* The options hold a negative iteration count.
NegativeCount ==
    opts.set /\ (opts.etfIteration < 0 \/ opts.fDogIteration < 0)

\* C8 as stated: a configuration with a negative iteration count is
\* rejected and no output raster is produced.
C8_NegativeCountRejected ==
    NegativeCount => (trace = <<>> /\ response # "image")

\* C8 amended: a negative iteration count is not rejected but taken as
\* zero: no refinement pass for a negative etfIteration, one filter pass and
\* no recombination for a negative fDogIteration, and Handle returns the
\* image when the run completes.
C8_NegativeCountAsZero ==
    /\ (opts.set /\ opts.etfIteration < 0) => refined = 0
    /\ (opts.set /\ opts.fDogIteration < 0) =>
          /\ i = 0
          /\ stage # "combineImage"
          /\ IsPrefix(Stages, FilterPass)
          /\ pc = "return" => Stages = FilterPass
    /\ (NegativeCount /\ pc = "done") => response = "image"

\* Handle has returned the image of a request with a negative count.
C8_Witness ==
    /\ NegativeCount
    /\ pc = "done"
    /\ response = "image"
    /\ Stages = FilterPass

\* The defaults of the README's parameter table.
ReadmeDefaults ==
    [aa |-> FALSE, bl |-> 3, di |-> 1, ei |-> 2, k |-> 2,
     rho |-> DivRound(98 * Scale, 100), sc |-> Scale, sm |-> 3 * Scale,
     sr |-> DivRound(26 * Scale, 10), tau |-> DivRound(98 * Scale, 100)]

Absent(key) == Get(Params(req), key) = <<>>

\* C9: a query parameter that is absent from the request is configured with
\* the default the README documents for it.
C9_ReadmeDefaults ==
    opts.set =>
        /\ Absent("bl") => opts.blurSize = ReadmeDefaults.bl
        /\ Absent("di") => opts.fDogIteration = ReadmeDefaults.di
        /\ Absent("ei") => opts.etfIteration = ReadmeDefaults.ei
        /\ Absent("k") => opts.etfKernel = ReadmeDefaults.k
        /\ Absent("rho") => opts.rho = ReadmeDefaults.rho
        /\ Absent("sc") => opts.sigmaC = ReadmeDefaults.sc
        /\ Absent("sm") => opts.sigmaM = ReadmeDefaults.sm
        /\ Absent("sr") => opts.sigmaR = ReadmeDefaults.sr
        /\ Absent("tau") => opts.tau = ReadmeDefaults.tau
        /\ (Absent("aa") /\ Absent("ai")) => opts.antiAlias = ReadmeDefaults.aa

\* C10: in the url mode the documented flag aa with a true value makes
\* Handle run the pipeline with anti-aliasing enabled.
C10_DocumentedFlagEnablesAntiAlias ==
    (opts.set /\ req.mode = "url" /\ ParseBool(Get(req.query, "aa")).val) =>
        opts.antiAlias

\* C11: in the non-URL mode a body that is a JPEG or PNG image, raw or
\* base64 encoded, is accepted: Handle does not return the "Only jpeg or
\* png images" rejection.
C11_Base64ImageAccepted ==
    (req.mode # "url" /\ pc # "Handle" /\
     req.body \in {"jpeg", "png", "b64jpeg", "b64png"}) =>
        response # OnlyJpegOrPng

\* Handle has rejected the request.
Rejected == pc = "done" /\ response = OnlyJpegOrPng

\* C12: in every input mode content that is no JPEG or PNG image is
\* rejected by Handle before NewCLD or any stage runs.
C12_NonImageRejected ==
    (DataKind(req) \notin {"jpeg", "png"} /\ pc # "Handle") => Rejected

\* C13: in the URL mode, when http.Get returns an error, Handle returns the
\* "Unable to download image file from URI" message, does not crash and
\* does not run the pipeline.
C13_FetchFailureReported ==
    (req.mode = "url" /\ req.fetch # "ok" /\ pc # "Handle") =>
        (pc = "done" /\ response = UnableToDownload)

\* gau does not increase with the index.
NonIncreasing(gau) == \A j \in 1..(Len(gau) - 1) : gau[j] >= gau[j + 1]

\* The kernel of a sigma > 0 is returned, does not increase with the index
\* and ends below the threshold.
KernelShape(gau) ==
    /\ Returned(gau)
    /\ NonIncreasing(gau)
    /\ gau[Len(gau)] < threshold

Constructed ==
    opts.set /\ flowField # NoMat /\ pc \notin {"Handle", "NewCLD", "RefineEtf"}

\* C15: the tangent field is refined exactly etfIteration times (not at all
\* when etfIteration <= 0), inside NewCLD and before the first filter pass;
\* GenerateCld and its stages leave the field as NewCLD left it.
C15_RefinedInNewCLDOnly ==
    /\ Constructed =>
          /\ refined = IF opts.etfIteration > 0 THEN opts.etfIteration ELSE 0
          /\ flowField = [p \in Pix(rows, cols) |-> req.direction]
    /\ pc \in {"NewCLD", "RefineEtf"} =>
          /\ refined <= opts.etfIteration \/ refined = 0
          /\ trace = <<>>
          /\ stage = "none"

\* GenerateCld returns after two refinements and two filter passes on a
\* field that is as NewCLD left it.
C15_Witness ==
    /\ pc = "return"
    /\ opts.etfIteration = 2
    /\ refined = 2
    /\ Len(Stages) = 7
    /\ flowField = [p \in Pix(rows, cols) |-> req.direction]

\* The pixel of the call has no tangent.
ZeroTangent == calc.field[calc.p] = <<0, 0>>

\* C16: no division of a pixel body has a zero divisor: both weight sums of
\* gradientDoG include the step-0 sample and are > 0; the weight
\* accumulator of flowDoG is -gausVec[0] at the division when the pixel's
\* tangent is zero and at least +gausVec[0] otherwise.
C16_NoZeroDivisor ==
    /\ (calc.op = "gradientDoG" /\ calc.at = "stored") =>
          /\ calc.gvc[1] > 0 /\ calc.gvs[1] > 0
          /\ calc.acc.gauCWeightAcc >= calc.gvc[1]
          /\ calc.acc.gauSWeightAcc >= calc.gvs[1]
          /\ calc.val # NaN
    /\ (calc.op = "flowDoG" /\ calc.at \in {"walked", "stored"}) =>
          /\ calc.gausVec[1] > 0
          /\ IF ZeroTangent
             THEN calc.acc.gauWeightAcc = 0 - calc.gausVec[1]
             ELSE calc.acc.gauWeightAcc >= calc.gausVec[1]
    /\ (calc.op = "flowDoG" /\ calc.at = "stored") => calc.val # NaN

\* A pixel with a tangent has walked past its own cell: the accumulator
\* is above +gausVec[0].
C16_Witness ==
    /\ calc.op = "flowDoG"
    /\ calc.at = "walked"
    /\ ~ZeroTangent
    /\ calc.acc.gauWeightAcc > calc.gausVec[1]

\* What rounding the product and the quotient of the centre tap can add to
\* the stored value.
RoundOff(g0) == DivRound(Scale, 2 * g0) + 1

\* C17: for a pixel whose tangent is zero both walks of flowDoG end at once
\* without a sample, and the value stored is that of the centre tap alone:
\* 1.0 if the value v of the source at the pixel is > 0, else 1.0 + tanh(v).
C17_ZeroTangentCentreTap ==
    (calc.op = "flowDoG" /\ ZeroTangent) =>
        LET v == calc.src[calc.p]
            g0 == calc.gausVec[1]
        IN  /\ calc.at \in {"walked", "stored"} =>
                  /\ calc.acc.gauWeightAcc = 0 - g0
                  /\ calc.acc.gauAcc = 0 - FMul(g0, v)
            /\ calc.at = "stored" =>
                  IF v > 0 THEN calc.val = One
                  ELSE Abs(calc.val - (One + Tanh(v))) <= RoundOff(g0)

\* A pixel without tangent and with a negative source value has stored
\* 1 + tanh of it, in a raster whose other pixel has a tangent.
C17_Witness ==
    /\ calc.op = "flowDoG"
    /\ calc.at = "stored"
    /\ ZeroTangent
    /\ calc.src[calc.p] < 0
    /\ calc.val < One /\ calc.val > 0
    /\ \E q \in DOMAIN calc.field : calc.field[q] # <<0, 0>>

\* Some goroutine of the running flowDoG stage has stored its cell.
SomeFlowTaskExited ==
    stage = "flowDoG" /\ \E q \in DOMAIN task : task[q] = "exited"

\* C18: within one stage the pixel tasks share no mutable state but the
\* tangent field and the working raster: what a task computes its value
\* from is owned by it, so once a task of flowDoG has finished no other
\* task of the stage writes the variables it computed its value from.
C18_TasksShareNoAccumulators ==
    [][SomeFlowTaskExited =>
          (gauAcc' = gauAcc /\ gauWeightAcc' = gauWeightAcc)]_vars

\* The goroutines between c.etf.mu.Lock() and c.wg.Done().
Holders == {p \in DOMAIN task : task[p] \in {"locked", "walked"}}

\* gauAcc and gauWeightAcc as the goroutine of pixel p alone computes them.
OwnAcc(p) == FlowAcc(dog, flowField, gausVec, rows, cols, p[1], p[2])

\* C19: at most one pixel task is between acquiring and releasing the
\* mutex; so in flowDoG the accumulators a task has set are its own until
\* it stores its cell, and the stored value comes from its own accumulation.
C19_MutexSerialisesTasks ==
    /\ Cardinality(Holders) + (IF mu = "exiting" THEN 1 ELSE 0) <= 1
    /\ Holders # {} => mu = "held"
    /\ stage = "flowDoG" =>
          \A p \in DOMAIN task :
              /\ task[p] = "walked" =>
                    /\ gauAcc = OwnAcc(p).gauAcc
                    /\ gauWeightAcc = OwnAcc(p).gauWeightAcc
              /\ (task[p] = "exited" /\ pc = "flowDoG_go") =>
                    fDog[p] = newVal(OwnAcc(p).gauAcc, OwnAcc(p).gauWeightAcc)

\* A flowDoG goroutine holds the mutex with its accumulation done while
\* another, whose accumulation differs, waits for the mutex.
C19_Witness ==
    /\ stage = "flowDoG"
    /\ mu = "held"
    /\ \E p, q \in DOMAIN task :
          /\ task[p] = "walked"
          /\ task[q] = "ready"
          /\ OwnAcc(p).gauAcc # OwnAcc(q).gauAcc

\* A stage has returned: its c.wg.Wait() is behind the main goroutine.
StageReturned ==
    pc \in {"flowDoG", "binaryThreshold", "GenerateCld_loop",
            "PostProcessing", "return"}

\* The WaitGroup is never negative, and when a stage has returned it is
\* zero and every goroutine of the stage has signalled.
WaitGroupBalanced ==
    /\ wg >= 0
    /\ StageReturned => (wg = 0 /\ AllExited)

\* C20: under fair scheduling every stage terminates and GenerateCld
\* returns: the WaitGroup is raised by the number of goroutines spawned,
\* each signals once, the counter is never negative and is zero when a
\* stage returns, and a started GenerateCld reaches its return.
C20_GenerateCldReturns ==
    /\ []WaitGroupBalanced
    /\ (pc = "generate") ~> (pc = "return")

\* The read r of the call c stays inside what it reads: a raster of c.h
\* rows and c.w columns, or a kernel of the call.
InBounds(r, c) ==
    IF r.mat \in {"src", "flowField"} THEN InRaster(c.h, c.w, r.row, r.col)
    ELSE IF r.mat = "gvc" THEN r.col >= 0 /\ r.col < Len(c.gvc)
    ELSE IF r.mat = "gvs" THEN r.col >= 0 /\ r.col < Len(c.gvs)
    ELSE r.mat = "gausVec" /\ r.col >= 0 /\ r.col < Len(c.gausVec)

\* The walk with the sign dir has read the tangent at the start pixel.
WalkStarted(dir) ==
    Read("flowField", dir, 0, calc.p[1], calc.p[2]) \in calc.acc.reads

\* The walk with the sign dir took a step and then ended on the test of
\* its position: the tangent it read at step 1 is not zero and no sample
\* followed.
WalkLeftRaster(dir) ==
    \E r \in calc.acc.reads :
        /\ r.mat = "flowField" /\ r.walk = dir /\ r.step = 1
        /\ calc.field[<<r.row, r.col>>] # <<0, 0>>
        /\ Read("src", dir, 1, r.row, r.col) \notin calc.acc.reads

\* C21: every read of the tangent field, of the raster and of a kernel in
\* the goroutine of gradientDoG and in both walks of flowDoG has its index
\* in bounds, for every start pixel and every field of zero or unit
\* vectors; a walk that leaves the raster ends alone: the other walk is
\* made and the pixel's value is computed.
C21_ReadsInBounds ==
    (calc.op \in {"gradientDoG", "flowDoG"} /\ calc.at # "call") =>
        /\ \A r \in calc.acc.reads : InBounds(r, calc)
        /\ calc.op = "flowDoG" =>
              /\ ~calc.acc.oob
              /\ WalkStarted(1)
              /\ WalkStarted(0 - 1)
              /\ calc.at = "stored" =>
                    calc.val = newVal(calc.acc.gauAcc, calc.acc.gauWeightAcc)

\* A stored flowDoG pixel whose walk along the ETF left the raster at a
\* position that still rounds into it, after which the walk along the
\* inverse ETF read its samples.
C21_Witness ==
    /\ calc.op = "flowDoG"
    /\ calc.at = "stored"
    /\ WalkLeftRaster(1)
    /\ \E r \in calc.acc.reads : r.mat = "src" /\ r.walk = 0 - 1

=============================================================================
